---- MODULE Spec2Model ----
(***************************************************************************)
(* Model of basics/gemini.py: a linear script that reads GEMINI_API_KEY,   *)
(* prints it, builds a genai client, reads one line of standard input,     *)
(* asks the service for a completion and writes its text to content.md.    *)
(*                                                                         *)
(* One process run walks the statements of the module in order; a run      *)
(* that raises ends at once with exit status 1.  The file system outlives  *)
(* a run, so several runs in a row are modelled (NewRun); fs0 is the file   *)
(* system as the current run found it, prevOk tells whether the run before *)
(* completed normally.                                                     *)
(*                                                                         *)
(* Python strings are sequences of characters.  An optional value (a str    *)
(* or None) is a record; a name of the module that may still be unbound is *)
(* a sequence of length 0 (unbound) or 1 (bound).  stdin is the stream the *)
(* process finds on standard input when input() reads it: empty sequence   *)
(* before the read, the one-element sequence holding the stream after it.  *)
(***************************************************************************)
EXTENDS Integers, Sequences, FiniteSets, TLC

\* ---------------------------------------------------------------- bounds
MaxRuns == 2
MaxLen == 2
MaxStdin == 2

\* ---------------------------------------------------------------- values
None == [isNone |-> TRUE, s |-> <<>>]

Some(s) == [isNone |-> FALSE, s |-> s]

SeqsUpTo(S, n) == UNION {[1..k -> S] : k \in 0..n}

Chars == {"a", "b"}

StdinChars == {"a", " ", "\n"}

Texts == SeqsUpTo(Chars, MaxLen)

OptTexts == {None} \cup {Some(t) : t \in Texts}

StdinStreams == SeqsUpTo(StdinChars, MaxStdin)

\* keys the service knows about: <<"k">> is accepted, <<"x">> is rejected,
\* <<>> is a variable set to the empty string
KeyValues == {None, Some(<<>>), Some(<<"k">>), Some(<<"x">>)}

ValidKeys == {<<"k">>}

\* the environments a run may start in; for the second variable only "unset"
\* and "set to an accepted key" are distinguished
Environs ==
    {e \in [{"GEMINI_API_KEY", "GOOGLE_API_KEY"} -> KeyValues] :
        e["GOOGLE_API_KEY"] \in {None, Some(<<"k">>)}}

Files == {"content.md", "other.md"}

ModelId == "gemini-2.5-flash"

\* ------------------------------------------------------- pure operations
\* os.environ.get(name): the value, or None when the variable is unset
EnvironGet(env, name) == env[name]

\* str() as print applies it: None is rendered as the word None
Str(v) == IF v.isNone THEN <<"N", "o", "n", "e">> ELSE v.s

PrintedMasked(v) == <<"*", "\n">>

\* print(v): the rendering of v followed by a newline
Printed(v) == Str(v) \o <<"\n">>

\* Python truthiness of an optional string
Truthy(v) == ~v.isNone /\ v.s # <<>>

\* genai.Client() is given no argument: the library itself looks the key up
\* in the environment, GOOGLE_API_KEY first, then GEMINI_API_KEY
EnvApiKey(env) ==
    IF Truthy(env["GOOGLE_API_KEY"]) THEN env["GOOGLE_API_KEY"]
    ELSE IF Truthy(env["GEMINI_API_KEY"]) THEN env["GEMINI_API_KEY"]
    ELSE None

\* position of the first newline of a stream, or Len+1 when there is none
FirstNL(s) ==
    IF \E i \in 1..Len(s) : s[i] = "\n"
    THEN CHOOSE i \in 1..Len(s) : s[i] = "\n" /\ \A j \in 1..(i-1) : s[j] # "\n"
    ELSE Len(s) + 1

IsSpace(c) == c \in {" ", "\n"}

RECURSIVE Strip(_)
Strip(s) ==
    IF s = <<>> THEN s
    ELSE IF IsSpace(s[1]) THEN Strip(Tail(s))
    ELSE IF IsSpace(s[Len(s)]) THEN Strip(SubSeq(s, 1, Len(s) - 1))
    ELSE s

InputStripped(s) == Strip(SubSeq(s, 1, FirstNL(s) - 1))

\* input(): the first line of the stream, its terminating newline removed
Input(s) == SubSeq(s, 1, FirstNL(s) - 1)

\* input() raises EOFError when the stream is at end of file
AtEOF(s) == s = <<>>

OpenAppend(f) == IF f.isNone THEN Some(<<>>) ELSE f

\* open(name, "w"): the file exists afterwards and is empty
Truncate(f) == Some(<<>>)

WritableAny(v) == TRUE

\* file.write accepts a str only; None raises TypeError
Writable(v) == ~v.isNone

FileWritePlaceholder(f, t) == IF t = <<>> THEN Some(f.s \o <<"a">>) ELSE Some(f.s \o t)

FileWriteDropLast(f, t) == IF t = <<>> THEN Some(f.s) ELSE Some(f.s \o SubSeq(t, 1, Len(t) - 1))

\* file.write(t) on the open file: t is put after what the file holds
FileWrite(f, t) == Some(f.s \o t)

\* ----------------------------------------------------------------- state
VARIABLES environ, stdin, fs, fs0, prevOk, run,
          pc, api, client, prompt, request, response,
          stdout, trace, calls, error, exitCode

vars == <<environ, stdin, fs, fs0, prevOk, run,
          pc, api, client, prompt, request, response,
          stdout, trace, calls, error, exitCode>>

AllSteps == <<"L4", "L5", "L7", "L9", "L11", "L18", "L19">>

SuccOpenEarly ==
    [p \in {"L4", "L5", "L7", "L9", "L11", "L18", "L19"} |->
        CASE p = "L4" -> "L5" [] p = "L5" -> "L7" [] p = "L7" -> "L18"
          [] p = "L18" -> "L9" [] p = "L9" -> "L11" [] p = "L11" -> "L19"
          [] p = "L19" -> "end"]

SuccOpenFirst ==
    [p \in {"L4", "L5", "L7", "L9", "L11", "L18", "L19"} |->
        CASE p = "L4" -> "L5" [] p = "L5" -> "L7" [] p = "L7" -> "L9"
          [] p = "L9" -> "L18" [] p = "L18" -> "L11" [] p = "L11" -> "L19"
          [] p = "L19" -> "end"]

\* the statements of the module run top to bottom
Succ ==
    [p \in {"L4", "L5", "L7", "L9", "L11", "L18", "L19"} |->
        CASE p = "L4" -> "L5" [] p = "L5" -> "L7" [] p = "L7" -> "L9"
          [] p = "L9" -> "L11" [] p = "L11" -> "L18" [] p = "L18" -> "L19"
          [] p = "L19" -> "end"]

RaiseSwallow(e) ==
    /\ pc' = Succ[pc]
    /\ error' = error
    /\ exitCode' = exitCode

RaiseRetry(e) ==
    /\ pc' = pc
    /\ error' = e
    /\ exitCode' = exitCode

\* nothing catches an exception: the interpreter prints the traceback and
\* the process ends with status 1
Raise(e) ==
    /\ pc' = "exit"
    /\ error' = e
    /\ exitCode' = 1

Step == trace' = Append(trace, pc)

Init ==
    /\ environ \in Environs
    /\ stdin = <<>>
    /\ fs \in [Files -> OptTexts]
    /\ fs["other.md"] = Some(<<"a">>)
    /\ fs0 = fs
    /\ prevOk = FALSE
    /\ run = 1
    /\ pc = "L4"
    /\ api = <<>>
    /\ client = <<>>
    /\ prompt = <<>>
    /\ request = <<>>
    /\ response = <<>>
    /\ stdout = <<>>
    /\ trace = <<>>
    /\ calls = 0
    /\ error = "none"
    /\ exitCode = -1

\* line 4: api = os.environ.get("GEMINI_API_KEY")
GetEnv ==
    /\ pc = "L4"
    /\ api' = <<EnvironGet(environ, "GEMINI_API_KEY")>>
    /\ pc' = Succ[pc]
    /\ Step
    /\ UNCHANGED <<environ, stdin, fs, fs0, prevOk, run, client, prompt,
                   request, response, stdout, calls, error, exitCode>>

\* line 5: print(api)
PrintApi ==
    /\ pc = "L5"
    /\ api # <<>>
    /\ stdout' = stdout \o Printed(api[1])
    /\ pc' = Succ[pc]
    /\ Step
    /\ UNCHANGED <<environ, stdin, fs, fs0, prevOk, run, api, client, prompt,
                   request, response, calls, error, exitCode>>

\* line 7: client = genai.Client(), a key was found in the environment
ClientOk ==
    /\ pc = "L7"
    /\ ~EnvApiKey(environ).isNone
    /\ client' = <<EnvApiKey(environ)>>
    /\ pc' = Succ[pc]
    /\ Step
    /\ UNCHANGED <<environ, stdin, fs, fs0, prevOk, run, api, prompt,
                   request, response, stdout, calls, error, exitCode>>

\* line 7: no key in the environment, the constructor raises ValueError
ClientFail ==
    /\ pc = "L7"
    /\ EnvApiKey(environ).isNone
    /\ Raise("ValueError")
    /\ Step
    /\ UNCHANGED <<environ, stdin, fs, fs0, prevOk, run, api, client, prompt,
                   request, response, stdout, calls>>

\* line 9: prompt = input()
ReadPrompt ==
    /\ pc = "L9"
    /\ \E s \in StdinStreams :
          /\ ~AtEOF(s)
          /\ stdin' = <<s>>
          /\ prompt' = <<Input(s)>>
    /\ pc' = Succ[pc]
    /\ Step
    /\ UNCHANGED <<environ, fs, fs0, prevOk, run, api, client,
                   request, response, stdout, calls, error, exitCode>>

\* line 9: input() at end of file raises EOFError
ReadPromptEOF ==
    /\ pc = "L9"
    /\ \E s \in StdinStreams :
          /\ AtEOF(s)
          /\ stdin' = <<s>>
    /\ Raise("EOFError")
    /\ Step
    /\ UNCHANGED <<environ, fs, fs0, prevOk, run, api, client, prompt,
                   request, response, stdout, calls>>

\* the service accepts the key the client was built with
Authorised == client # <<>> /\ ~client[1].isNone /\ client[1].s \in ValidKeys

\* lines 11-14: the call returns a response whose text is a str or None
GenerateOk ==
    /\ pc = "L11"
    /\ prompt # <<>>
    /\ Authorised
    /\ request' = <<[model |-> ModelId, contents |-> prompt[1]]>>
    /\ calls' = calls + 1
    /\ \E t \in OptTexts : response' = <<t>>
    /\ pc' = Succ[pc]
    /\ Step
    /\ UNCHANGED <<environ, stdin, fs, fs0, prevOk, run, api, client, prompt,
                   stdout, error, exitCode>>

\* lines 11-14: the service rejects the key, or the network fails
GenerateFail ==
    /\ pc = "L11"
    /\ prompt # <<>>
    /\ request' = <<[model |-> ModelId, contents |-> prompt[1]]>>
    /\ calls' = calls + 1
    /\ Raise("APIError")
    /\ Step
    /\ UNCHANGED <<environ, stdin, fs, fs0, prevOk, run, api, client, prompt,
                   response, stdout>>

\* line 18: open("content.md", "w") creates or truncates the file
OpenOk ==
    /\ pc = "L18"
    /\ fs' = [fs EXCEPT !["content.md"] = Truncate(@)]
    /\ pc' = Succ[pc]
    /\ Step
    /\ UNCHANGED <<environ, stdin, fs0, prevOk, run, api, client, prompt,
                   request, response, stdout, calls, error, exitCode>>

\* line 18: open fails (directory not writable, ...): OSError, file untouched
OpenFail ==
    /\ pc = "L18"
    /\ Raise("OSError")
    /\ Step
    /\ UNCHANGED <<environ, stdin, fs, fs0, prevOk, run, api, client, prompt,
                   request, response, stdout, calls>>

\* line 19: file.write(response.text), then the with block closes the file
WriteOk ==
    /\ pc = "L19"
    /\ response # <<>>
    /\ Writable(response[1])
    /\ fs' = [fs EXCEPT !["content.md"] = FileWrite(@, response[1].s)]
    /\ pc' = Succ[pc]
    /\ Step
    /\ UNCHANGED <<environ, stdin, fs0, prevOk, run, api, client, prompt,
                   request, response, stdout, calls, error, exitCode>>

\* line 19: response.text is None, file.write raises TypeError
WriteTypeError ==
    /\ pc = "L19"
    /\ response # <<>>
    /\ ~Writable(response[1])
    /\ Raise("TypeError")
    /\ Step
    /\ UNCHANGED <<environ, stdin, fs, fs0, prevOk, run, api, client, prompt,
                   request, response, stdout, calls>>

\* line 19: the device fails while the text is written or flushed at close;
\* some prefix of the text has reached the file
WriteOSError ==
    /\ pc = "L19"
    /\ response # <<>>
    /\ Writable(response[1])
    /\ \E n \in 0..Len(response[1].s) :
          fs' = [fs EXCEPT !["content.md"] =
                    FileWrite(@, SubSeq(response[1].s, 1, n))]
    /\ Raise("OSError")
    /\ Step
    /\ UNCHANGED <<environ, stdin, fs0, prevOk, run, api, client, prompt,
                   request, response, stdout, calls>>

\* the end of the module is reached: the interpreter exits with status 0
Finish ==
    /\ pc = "end"
    /\ pc' = "exit"
    /\ exitCode' = 0
    /\ UNCHANGED <<environ, stdin, fs, fs0, prevOk, run, api, client, prompt,
                   request, response, stdout, trace, calls, error>>

\* the script is started again, in a new process, on the same directory
NewRun ==
    /\ pc = "exit"
    /\ run < MaxRuns
    /\ run' = run + 1
    /\ environ' \in Environs
    /\ stdin' = <<>>
    /\ fs0' = fs
    /\ prevOk' = (exitCode = 0)
    /\ pc' = "L4"
    /\ api' = <<>>
    /\ client' = <<>>
    /\ prompt' = <<>>
    /\ request' = <<>>
    /\ response' = <<>>
    /\ stdout' = <<>>
    /\ trace' = <<>>
    /\ calls' = 0
    /\ error' = "none"
    /\ exitCode' = -1
    /\ UNCHANGED fs

Next ==
    \/ GetEnv
    \/ PrintApi
    \/ ClientOk
    \/ ClientFail
    \/ ReadPrompt
    \/ ReadPromptEOF
    \/ GenerateOk
    \/ GenerateFail
    \/ OpenOk
    \/ OpenFail
    \/ WriteOk
    \/ WriteTypeError
    \/ WriteOSError
    \/ Finish
    \/ NewRun

Spec == Init /\ [][Next]_vars

\* ------------------------------------------------------------ properties
Done == pc = "exit"

Ok == pc = "exit" /\ exitCode = 0

Content == fs["content.md"]

Ran(step) == \E i \in 1..Len(trace) : trace[i] = step

IsPrefix(a, b) == Len(a) <= Len(b) /\ SubSeq(b, 1, Len(a)) = a

\* C1: a run that completes normally leaves content.md holding exactly the
\* text the remote call returned in that same run, nothing more, nothing less
C1_FileIsReturnedText ==
    Ok => /\ response # <<>>
          /\ ~response[1].isNone
          /\ ~Content.isNone
          /\ Content.s = response[1].s

C1_Witness ==
    /\ Ok
    /\ ~fs0["content.md"].isNone
    /\ fs0["content.md"].s # <<>>
    /\ Len(response[1].s) = MaxLen
    /\ response[1].s # fs0["content.md"].s

\* C2: after a run that completed normally (it left its text in content.md),
\* the next run that completes normally leaves only its own text in
\* content.md: the file is as long as the last text and equal to it, no
\* character of the earlier text is kept
C2_OnlyLastRunRemains ==
    (Ok /\ run >= 2 /\ prevOk) =>
        /\ Len(Content.s) = Len(response[1].s)
        /\ \A i \in 1..Len(Content.s) : Content.s[i] = response[1].s[i]

C2_Witness ==
    /\ Ok
    /\ run >= 2
    /\ prevOk
    /\ ~fs0["content.md"].isNone
    /\ Len(fs0["content.md"].s) > Len(response[1].s)

C4_RequestIsLine ==
    /\ calls <= 1
    /\ (calls = 1) = (request # <<>>)
    /\ request # <<>> =>
         LET c == request[1].contents IN
         /\ request[1].model = "gemini-2.5-flash"
         /\ \A i \in 1..Len(c) : c[i] # "\n"
         /\ stdin # <<>>
         /\ IsPrefix(c, stdin[1])
         /\ (Len(stdin[1]) = Len(c) \/ stdin[1][Len(c) + 1] = "\n")

C4_Witness ==
    /\ request # <<>>
    /\ request[1].contents = <<>>
    /\ stdin = << <<"\n", " ">> >>

\* C5: when the remote call returned the empty string, the run completes
\* normally with content.md existing and empty (no placeholder, old content
\* gone); only a fault of the file system itself can end the run otherwise
C5_EmptyTextEmptyFile ==
    (Done /\ response = <<Some(<<>>)>>) =>
        \/ error = "none" /\ exitCode = 0 /\ Content = Some(<<>>)
        \/ error = "OSError" /\ exitCode = 1

C5_Witness ==
    /\ Ok
    /\ response = <<Some(<<>>)>>
    /\ ~fs0["content.md"].isNone
    /\ fs0["content.md"].s # <<>>
    /\ Content = Some(<<>>)

\* the step at which each kind of fault is raised
FaultStep(e) ==
    CASE e = "ValueError" -> "L7"
      [] e = "EOFError" -> "L9"
      [] e = "APIError" -> "L11"
      [] e = "TypeError" -> "L19"
      [] e = "OSError" -> "L18"
      [] OTHER -> "none"

\* C6: a fault is never handled: the step that raises is the last step of
\* the run and the exit status is nonzero; a run makes one remote call at
\* most; exit status 0 means every step, the file write included, completed
C6_FailFast ==
    /\ calls <= 1
    /\ error # "none" =>
          /\ pc = "exit"
          /\ exitCode = 1
          /\ trace # <<>>
          /\ \/ trace[Len(trace)] = FaultStep(error)
             \/ error = "OSError" /\ trace[Len(trace)] = "L19"
          /\ Cardinality({i \in 1..Len(trace) : trace[i] = trace[Len(trace)]}) = 1
    /\ exitCode = 0 =>
          /\ error = "none"
          /\ trace = AllSteps
          /\ calls = 1
    /\ exitCode \in {-1, 0, 1}
    /\ (exitCode = -1) = (pc # "exit")

C6_Witness ==
    /\ Done
    /\ error = "APIError"
    /\ exitCode = 1
    /\ calls = 1
    /\ trace = <<"L4", "L5", "L7", "L9", "L11">>

\* C7: the steps of a run happen once each, in the order credential read,
\* print, client, prompt read, remote call, open, write; the call is not
\* made before the prompt is read and the file is not opened before the call
\* has returned; a normally completing run has done all of them
C7_FixedOrder ==
    /\ IsPrefix(trace, AllSteps)
    /\ Ran("L11") => prompt # <<>> /\ api # <<>>
    /\ Ran("L18") => response # <<>> /\ calls = 1
    /\ fs # fs0 => Ran("L18")
    /\ Ok => trace = AllSteps

C7_Witness ==
    /\ Ok
    /\ trace = AllSteps
    /\ fs # fs0

\* what print shows for the value of GEMINI_API_KEY
ExpectedStdout ==
    IF environ["GEMINI_API_KEY"].isNone
    THEN <<"N", "o", "n", "e", "\n">>
    ELSE environ["GEMINI_API_KEY"].s \o <<"\n">>

\* C8: before any step that can fail is attempted, and so in every run that
\* ended, failing or not, the value of GEMINI_API_KEY has been printed as it
\* is; an unset variable is printed as the missing value None
C8_KeyPrintedFirst ==
    /\ (Ran("L7") \/ Ran("L9") \/ Ran("L11") \/ Ran("L18") \/ Ran("L19") \/ Done
          \/ error # "none") => stdout = ExpectedStdout
    /\ stdout # <<>> => stdout = ExpectedStdout

C8_Witness ==
    /\ Done
    /\ error = "ValueError"
    /\ environ["GEMINI_API_KEY"].isNone
    /\ stdout = <<"N", "o", "n", "e", "\n">>

\* C9: when the response's text is None and the file could be opened, the
\* run ends with a TypeError raised by the write, status nonzero, and
\* content.md exists and is empty, whatever it held before
C9_NoneTextTruncates ==
    (Done /\ response = <<None>>) =>
        /\ exitCode = 1
        /\ \/ /\ error = "TypeError"
              /\ trace = AllSteps
              /\ Content = Some(<<>>)
           \/ /\ error = "OSError"
              /\ trace[Len(trace)] = "L18"
              /\ fs = fs0

C9_Witness ==
    /\ Done
    /\ response = <<None>>
    /\ error = "TypeError"
    /\ ~fs0["content.md"].isNone
    /\ fs0["content.md"].s # <<>>
    /\ Content = Some(<<>>)

\* C10: a run that fails before the write step (client construction, end of
\* input, remote call) leaves content.md as it was, absent included; the
\* file changes only after a response was returned; other files never change
C10_FailureLeavesFile ==
    /\ (Done /\ error \in {"ValueError", "EOFError", "APIError"}) => fs = fs0
    /\ response = <<>> => fs = fs0
    /\ fs["other.md"] = fs0["other.md"]

C10_Witness ==
    /\ Done
    /\ error \in {"EOFError", "APIError"}
    /\ fs0["content.md"] = Some(<<"a">>)
    /\ fs["content.md"] = Some(<<"a">>)
    /\ client # <<>>

====
